---- MODULE Spec2Model ----
(***************************************************************************)
(* Feed-ingestion and deduplication engine of the two digest scripts        *)
(*   skills/daily-reading-digest/scripts/collect_digest.py                  *)
(*   skills/vicki-newsletter-digest/scripts/collect_vicki_digest.py         *)
(* The two collect_digest functions are line-for-line the same except that  *)
(* the daily script calls collect_hn between the final sort and the result  *)
(* (line 397).  The model follows the daily script; the vicki script is the *)
(* same machine in which the Hacker News fetch never fails.                 *)
(*                                                                         *)
(* Values.  A canonical URL is a number: 0 is the empty string "", 1..      *)
(* NumUrls are distinct non-empty URLs.  A datetime is an integer (hours).  *)
(* Python's None for an optional datetime is the empty tuple None, a known  *)
(* datetime t is <<t>>.  Text that holds a timestamp (the state document's  *)
(* last_run, a post's published_at) is a record produced by isoformat and   *)
(* read back by parse_datetime.  Title and excerpt of an entry are copied   *)
(* into the post unchanged and take part in no decision; they are left out. *)
(***************************************************************************)
EXTENDS Integers, Sequences, FiniteSets, TLC

(***************************************************************************)
(* Bounds of the model.                                                    *)
(***************************************************************************)
\* distinct non-empty canonical URLs
NumUrls == 3
\* datetimes are 0..MaxTime
MaxTime == 1
\* entries of one feed document
MaxEntries == 2
\* entries of all feed documents together
MaxTotal == 3
\* len(SOURCES): 5 in the daily script, 2 in the vicki script
NumSources == 2
\* prune_seen's limit (2500 in the source), scaled to the URL universe
limit == 2
\* length of a seen_urls list found in a state document the run did not write
MaxPrior == 2
\* length of the raw text given to clean_excerpt
MaxText == 5
\* child elements of one item or entry
MaxChildren == 2
\* <link> children of one Atom entry
MaxLinks == 3
\* parameters in the query of one URL
MaxParams == 3

\* dt.datetime.min, the sort key of an entry without a timestamp
DtMin == -1

Procs == {1, 2}
SOURCES == 1..NumSources
Urls == 1..NumUrls
Time == 0..MaxTime

None == <<>>
Some(t) == <<t>>

Max(a, b) == IF a >= b THEN a ELSE b
Range(s) == {s[i] : i \in DOMAIN s}
SeqsUpTo(S, n) == UNION {[1..k -> S] : k \in 0..n}

(***************************************************************************)
(* Timestamps as text.                                                     *)
(***************************************************************************)
\* dt.datetime.isoformat() of an aware UTC datetime
isoformat(t) == [k |-> "iso", t |-> t]
\* a JSON value that is absent / null
NoRaw == [k |-> "none"]
\* a text no date parser accepts
BadText == [k |-> "badtext"]
\* a truthy JSON value that is not text (a number, true, a non-empty list)
NonText == [k |-> "nontext"]

\* parse_datetime raises AttributeError at raw.strip() for a truthy non-text
parse_datetime_raises(raw) == raw.k = "nontext"

\* parse_datetime: None for absent, empty or unparseable text; the UTC
\* datetime for text written by isoformat (email parser fails, fromisoformat
\* succeeds)
parse_datetime(raw) ==
    IF raw.k = "iso" THEN Some(raw.t) ELSE None

(***************************************************************************)
(* normalize_url (lines 134-164).  The text of a <link> is absent or blank, *)
(* or a link: rest is everything of it that is not a utm_source parameter   *)
(* (scheme, host, path, the other query parameters, fragment), utm is its   *)
(* utm_source parameter (0 when it has none), splits tells whether          *)
(* urllib.parse.urlsplit accepts it (it raises ValueError on, for example,  *)
(* an unclosed IPv6 bracket).                                               *)
(***************************************************************************)
NoLink == [k |-> "none"]
Link(rest, utm, splits) == [k |-> "link", rest |-> rest, utm |-> utm, splits |-> splits]

\* the canonical URL of a link that urlsplit rejects: the text itself, a
\* different one for every utm_source value
Unsplit(link) == NumUrls + 2 * (link.rest - 1) + link.utm + 1

normalize_url(link) ==
    IF link.k = "none" THEN 0
    ELSE IF ~link.splits THEN Unsplit(link)
    ELSE link.rest

(***************************************************************************)
(* normalize_url on the parts of a URL (lines 142-164).  A URL that         *)
(* urlsplit accepts is its scheme (a word, written in capitals or not), its  *)
(* netloc, path and fragment, and its query: a sequence of parameters, each  *)
(* a key and the percent-encoded text of a value.                            *)
(***************************************************************************)
\* urllib.parse.urlsplit: the scheme comes back lower-cased, the rest as is
urlsplit(value) == [value EXCEPT !.scheme.upper = FALSE]

\* urllib.parse.unquote of parse_qsl (encoding utf-8, errors "replace"): a
\* plus sign or %20 is a space, an octet that is not UTF-8 is U+FFFD
unquote(val) ==
    CASE val = "1" -> "1"
      [] val \in {"+", "%20"} -> " "
      [] val \in {"%ff", "%fe", "%EF%BF%BD"} -> "U+FFFD"

\* urllib.parse.parse_qsl(query, keep_blank_values=True)
parse_qsl(query) ==
    [i \in 1..Len(query) |-> [key |-> query[i].key, val |-> unquote(query[i].val)]]

\* str.lower
lower(key) ==
    CASE key = "UTM_Medium" -> "utm_medium"
      [] key = "Ref" -> "ref"
      [] key = "SOURCE" -> "source"
      [] OTHER -> key

\* lowered.startswith("utm_")
startswith_utm(lowered) == lowered \in {"utm_source", "utm_medium"}

\* the loop of lines 147-154
filtered_query(pairs) ==
    SelectSeq(pairs, LAMBDA p : /\ ~startswith_utm(lower(p.key))
                                /\ lower(p.key) \notin {"ref", "source"})

\* urllib.parse.quote_plus of urlencode
quote_plus(text) ==
    CASE text = "1" -> "1"
      [] text = " " -> "+"
      [] text = "U+FFFD" -> "%EF%BF%BD"

\* urllib.parse.urlencode(filtered_query, doseq=True)
urlencode(pairs) ==
    [i \in 1..Len(pairs) |-> [key |-> pairs[i].key, val |-> quote_plus(pairs[i].val)]]

\* lines 142-164, when urlsplit accepts the value; urlunsplit puts the parts
\* together again
normalize_url_parts(value) ==
    LET parts == urlsplit(value) IN
    [scheme |-> parts.scheme, netloc |-> parts.netloc, path |-> parts.path,
     query |-> urlencode(filtered_query(parse_qsl(parts.query))),
     fragment |-> parts.fragment]

(***************************************************************************)
(* clean_excerpt (daily lines 167-176, vicki lines 143-151).  A text is a   *)
(* sequence of characters; the raw text is made of the letter "a", the      *)
(* space, the entity "&amp;" and the tag "<b>", each taken as one unit.     *)
(* Characters outside ASCII are written by their code point.                *)
(***************************************************************************)
\* html.unescape
html_unescape(raw) ==
    [i \in 1..Len(raw) |-> IF raw[i] = "&amp;" THEN "&" ELSE raw[i]]

\* TAG_RE.sub(" ", text)
TAG_RE_sub(text) ==
    [i \in 1..Len(text) |-> IF text[i] = "<b>" THEN " " ELSE text[i]]

\* WS_RE.sub(" ", text): every run of whitespace becomes one space
RECURSIVE WS_RE_sub(_)
WS_RE_sub(text) ==
    IF Len(text) <= 1 THEN text
    ELSE IF text[1] = " " /\ text[2] = " " THEN WS_RE_sub(Tail(text))
    ELSE <<text[1]>> \o WS_RE_sub(Tail(text))

RECURSIVE rstrip(_)
rstrip(text) ==
    IF text # <<>> /\ text[Len(text)] = " "
    THEN rstrip(SubSeq(text, 1, Len(text) - 1))
    ELSE text

RECURSIVE lstrip(_)
lstrip(text) ==
    IF text # <<>> /\ text[1] = " " THEN lstrip(Tail(text)) ELSE text

strip(text) == rstrip(lstrip(text))

\* the text appended at line 176 (daily) and line 151 (vicki): in the vicki
\* script the one character U+2026; in the daily script the three characters
\* U+00E2 U+20AC U+00A6 (the UTF-8 bytes of U+2026 read as cp1252)
ellipsis(script) ==
    IF script = "daily" THEN <<"U+00E2", "U+20AC", "U+00A6">> ELSE <<"U+2026">>

\* max_chars >= 1 (240 and 300 in the source), so text[: max_chars - 1] is
\* the first max_chars - 1 characters
clean_excerpt(raw, max_chars, script) ==
    IF raw = <<>> THEN <<>>
    ELSE LET text == strip(WS_RE_sub(TAG_RE_sub(html_unescape(raw)))) IN
         IF Len(text) <= max_chars THEN text
         ELSE rstrip(SubSeq(text, 1, max_chars - 1)) \o ellipsis(script)

(***************************************************************************)
(* Stable descending sort, as list.sort(key=..., reverse=True): elements   *)
(* with equal keys keep their original order.  Works on <<key, item>>.     *)
(***************************************************************************)
RECURSIVE InsertByKey(_, _)
InsertByKey(sorted, x) ==
    IF sorted = <<>> THEN <<x>>
    ELSE IF sorted[1][1] >= x[1]
         THEN <<sorted[1]>> \o InsertByKey(Tail(sorted), x)
         ELSE <<x>> \o sorted

RECURSIVE SortDesc(_)
SortDesc(pairs) ==
    IF pairs = <<>> THEN <<>>
    ELSE InsertByKey(SortDesc(SubSeq(pairs, 1, Len(pairs) - 1)), pairs[Len(pairs)])

\* key of entries.sort (lines 343-348): published_at or datetime.min
EntryKey(entry) ==
    IF entry.published_at = None THEN DtMin ELSE entry.published_at[1]

sort_entries(entries) ==
    LET sorted == SortDesc([i \in 1..Len(entries) |-> <<EntryKey(entries[i]), entries[i]>>])
    IN  [i \in 1..Len(entries) |-> sorted[i][2]]

\* key of all_new_posts.sort (lines 391-395): the post's published_at text
\* parsed back, or datetime.min
PostKey(post) ==
    IF parse_datetime(post.published_at) = None THEN DtMin
    ELSE parse_datetime(post.published_at)[1]

\* all_new_posts left in the order the posts were appended
unsorted_posts(posts) == posts

sort_posts(posts) ==
    LET sorted == SortDesc([i \in 1..Len(posts) |-> <<PostKey(posts[i]), posts[i]>>])
    IN  [i \in 1..Len(posts) |-> sorted[i][2]]

(***************************************************************************)
(* prune_seen (lines 275-285).                                             *)
(***************************************************************************)
RECURSIVE prune_loop(_, _, _, _)
prune_loop(urls, out, seen, lim) ==
    IF urls = <<>> THEN out
    ELSE LET url == urls[1] IN
         IF url = 0 \/ url \in seen
         THEN prune_loop(Tail(urls), out, seen, lim)
         ELSE IF Len(out) + 1 >= lim
              THEN Append(out, url)
              ELSE prune_loop(Tail(urls), Append(out, url), seen \cup {url}, lim)

\* prune_seen over existing + observed instead of observed + existing
prune_seen_prior_first(observed, existing, lim) ==
    prune_loop(existing \o observed, <<>>, {}, lim)

\* prune_seen without the membership test of line 279
prune_seen_keeps_duplicates(observed, existing, lim) ==
    LET kept == SelectSeq(observed \o existing, LAMBDA url : url # 0)
    IN  SubSeq(kept, 1, IF Len(kept) <= Max(lim, 1) THEN Len(kept) ELSE Max(lim, 1))

prune_seen(observed, existing, lim) ==
    prune_loop(observed \o existing, <<>>, {}, lim)

(***************************************************************************)
(* The state document on disk.                                             *)
(*   kind "absent"   no file                                               *)
(*   kind "empty"    a file of length 0 (json.loads raises JSONDecodeError) *)
(*   kind "garbage"  text that is not JSON                                  *)
(*   kind "badbytes" bytes that are not UTF-8 (read_text raises             *)
(*                   UnicodeDecodeError, which load_state does not catch)   *)
(*   kind "json"     JSON text of the value doc                             *)
(* A JSON value is an object with optional last_run and seen_urls, or       *)
(* something that is not an object (a list, a number, null).               *)
(***************************************************************************)
NoFile == [kind |-> "absent"]
EmptyFile == [kind |-> "empty"]
GarbageFile == [kind |-> "garbage"]
BadBytesFile == [kind |-> "badbytes"]

\* "seen_urls" of a JSON object: no such key, a list of texts, or a number/null
NoKey == [k |-> "missing"]
ListOf(items) == [k |-> "list", items |-> items]
Scalar == [k |-> "scalar"]

Object(last_run, seen) == [shape |-> "object", last_run |-> last_run, seen_urls |-> seen]
NonObject == [shape |-> "nonobject"]
\* the Python value {}
EmptyState == Object(NoRaw, NoKey)

\* json.dumps(payload, indent=2, sort_keys=True) as file content
json_dumps(payload) == [kind |-> "json", doc |-> payload]

\* load_state (lines 261-267)
load_state_raises(f) == f.kind = "badbytes"

load_state(f) ==
    IF f.kind = "json" THEN f.doc ELSE EmptyState

\* state.get("seen_urls", [])
get_seen_urls(state) ==
    IF state.seen_urls.k = "list" THEN state.seen_urls.items ELSE <<>>

(***************************************************************************)
(* A feed as the network returns it.                                       *)
(*   status "neterr"     request_bytes raises (URLError, timeout)           *)
(*   status "malformed"  ET.fromstring raises ParseError                    *)
(*   status "xml"        a well-formed document with root tag root and the  *)
(*                       entries parse_rss_entries / parse_atom_entries     *)
(*                       return for it                                      *)
(***************************************************************************)
NetErr == [status |-> "neterr"]
Malformed == [status |-> "malformed"]
Xml(root, entries) == [status |-> "xml", root |-> root, entries |-> entries]

Entry(url, published_at) == [url |-> url, published_at |-> published_at]

\* parse_rss_entries / parse_atom_entries over the items of a document:
\* item.link is the text of <link>, item.published the text of the date
parse_rss_entries(items) ==
    [i \in 1..Len(items) |->
        Entry(normalize_url(items[i].link), parse_datetime(items[i].published))]

\* first_child_text (lines 85-91).  children are the child elements of a
\* node in document order, each a tag and a text; the text is NoRaw when the
\* element is empty or holds only whitespace
RECURSIVE first_child_text(_, _)
first_child_text(children, names) ==
    IF children = <<>> THEN NoRaw
    ELSE IF children[1].tag \in names /\ children[1].text # NoRaw
         THEN children[1].text
         ELSE first_child_text(Tail(children), names)

\* lines 192-195 and 232-235: the names given to first_child_text, a set
date_names(kind) ==
    IF kind = "rss" THEN {"pubDate", "published", "updated", "date"}
    ELSE {"published", "updated", "created", "date"}

\* published_at of parse_rss_entries / parse_atom_entries (lines 190-204 and
\* 231-243)
entry_published_at(kind, children) ==
    parse_datetime(first_child_text(children, date_names(kind)))

\* An attribute of an element is absent (NoAttr) or a text: word is the text
\* without its surrounding whitespace, lower-cased (for an href a URL, 0 for
\* nothing), padded tells whether it has surrounding whitespace, upper
\* whether it has capital letters
NoAttr == [k |-> "absent"]
Attr(word, padded, upper) ==
    [k |-> "text", word |-> word, padded |-> padded, upper |-> upper]

\* bool(text): the text is not empty
truthy(a, empty) == a.k = "text" /\ ~(a.word = empty /\ ~a.padded)

\* (child.attrib.get("href") or "").strip() (line 223)
href_of(child) == IF truthy(child.href, 0) THEN child.href.word ELSE 0

\* (child.attrib.get("rel") or "alternate").strip().lower() (line 224)
rel_of(child) == IF truthy(child.rel, "") THEN child.rel.word ELSE "alternate"

\* the loop of lines 220-229 with link the first non-alternate href so far
\* that gives the last alternate link with an href, without the break
RECURSIVE atom_link_no_break(_, _)
atom_link_no_break(children, link) ==
    IF children = <<>> THEN link
    ELSE LET href == href_of(children[1])
             rel == rel_of(children[1])
         IN  IF href # 0 /\ rel = "alternate"
             THEN atom_link_no_break(Tail(children), href)
             ELSE atom_link_no_break(Tail(children),
                                     IF href # 0 /\ link = 0 THEN href ELSE link)

\* the loop of lines 220-229 over the <link> children of an entry, from the
\* value link has before the iteration
RECURSIVE atom_link_loop(_, _)
atom_link_loop(children, link) ==
    IF children = <<>> THEN link
    ELSE LET href == href_of(children[1])
             rel == rel_of(children[1])
         IN  IF href # 0 /\ rel = "alternate" THEN href
             ELSE atom_link_loop(Tail(children),
                                 IF href # 0 /\ link = 0 THEN href ELSE link)

\* lines 219-229 and 240: link = "" and the loop; "url": normalize_url(link)
atom_entry_url(children) ==
    LET link == atom_link_loop(children, 0) IN
    [link |-> link,
     url |-> normalize_url(IF link = 0 THEN NoLink ELSE Link(link, 0, TRUE))]

\* what parse_feed(request_bytes(feed)) raises (lines 66-78, 249-258), as
\* str(exc); "none" when it returns
fetch_error(feed) ==
    IF feed.status = "neterr" THEN "URLError"
    ELSE IF feed.status = "malformed" THEN "ParseError"
    ELSE IF feed.root \in {"rss", "rdf", "feed"} THEN "none"
    ELSE "Unsupported feed format"

parse_feed(feed) == feed.entries

(***************************************************************************)
(* collect_digest, one run's local variables.                              *)
(***************************************************************************)
NoArgs == [grace_hours |-> 0, since_hours |-> 0, max_posts_per_source |-> 0,
           no_state_update |-> FALSE]
NoResult == [generated_at |-> NoRaw, window_start |-> NoRaw,
             new_posts_total |-> 0, new_posts |-> <<>>, sources |-> <<>>]

Blank == [pc |-> "idle", now |-> 0, args |-> NoArgs, state |-> EmptyState,
          window_start |-> 0, seen_urls |-> {}, observed_urls |-> <<>>,
          source_results |-> <<>>, all_new_posts |-> <<>>,
          result |-> NoResult, updated_state |-> EmptyState, error |-> "none"]

\* lines 317-327 raise: the exception that leaves collect_digest, or "none"
start_error(f) ==
    IF load_state_raises(f) THEN "UnicodeDecodeError"
    ELSE IF load_state(f).shape # "object" THEN "AttributeError"
    ELSE IF parse_datetime_raises(load_state(f).last_run) THEN "AttributeError"
    ELSE IF load_state(f).seen_urls.k = "scalar" THEN "TypeError"
    ELSE "none"

\* compute_window_start without the grace overlap of line 323
compute_window_start_no_grace(last_run, now, args) ==
    IF last_run # None
    THEN last_run[1]
    ELSE now - args.since_hours

\* compute_window_start that takes the first-run lookback whatever the state
compute_window_start_ignores_last_run(last_run, now, args) ==
    now - args.since_hours

\* compute_window_start without the first-run lookback of line 325
compute_window_start_no_lookback(last_run, now, args) ==
    IF last_run # None
    THEN last_run[1] - args.grace_hours
    ELSE now

\* lines 321-325
compute_window_start(last_run, now, args) ==
    IF last_run # None
    THEN last_run[1] - args.grace_hours
    ELSE now - args.since_hours

\* lines 317-330
start_run(now, args, f) ==
    IF start_error(f) # "none"
    THEN [Blank EXCEPT !.pc = "raised", !.error = start_error(f)]
    ELSE LET state == load_state(f)
             last_run == parse_datetime(state.last_run)
         IN  [Blank EXCEPT !.pc = "sources", !.now = now, !.args = args,
                           !.state = state,
                           !.window_start = compute_window_start(last_run, now, args),
                           !.seen_urls = Range(get_seen_urls(state))]

\* process_entry without the test of lines 354-355: an entry with an empty
\* URL is handled like any other
process_entry_keeps_empty(acc, entry, source, window_start, max_posts_per_source) ==
    LET url == entry.url
        observed == [acc EXCEPT !.observed_urls = Append(@, url)]
    IN  IF url \in acc.seen_urls THEN observed
        ELSE LET is_recent == \/ entry.published_at = None
                              \/ entry.published_at[1] >= window_start
                 marked == [observed EXCEPT !.seen_urls = @ \cup {url}]
                 post == [source_id |-> source, url |-> url,
                          published_at |-> IF entry.published_at = None
                                           THEN NoRaw
                                           ELSE isoformat(entry.published_at[1])]
             IN  IF ~is_recent THEN marked
                 ELSE IF Len(marked.new_posts) >= max_posts_per_source THEN marked
                 ELSE [marked EXCEPT !.new_posts = Append(@, post),
                                     !.all_new_posts = Append(@, post)]

\* process_entry with line 356 moved below the seen test of line 358: a URL
\* already in the seen-set is not appended to observed_urls
process_entry_observes_new_only(acc, entry, source, window_start, max_posts_per_source) ==
    LET url == entry.url IN
    IF url = 0 THEN acc
    ELSE IF url \in acc.seen_urls THEN acc
         ELSE LET observed == [acc EXCEPT !.observed_urls = Append(@, url)]
                  is_recent == \/ entry.published_at = None
                               \/ entry.published_at[1] >= window_start
                  marked == [observed EXCEPT !.seen_urls = @ \cup {url}]
                  post == [source_id |-> source, url |-> url,
                           published_at |-> IF entry.published_at = None
                                            THEN NoRaw
                                            ELSE isoformat(entry.published_at[1])]
              IN  IF ~is_recent THEN marked
                  ELSE IF Len(marked.new_posts) >= max_posts_per_source THEN marked
                  ELSE [marked EXCEPT !.new_posts = Append(@, post),
                                      !.all_new_posts = Append(@, post)]

\* process_entry without the cap test of line 368
process_entry_uncapped(acc, entry, source, window_start, max_posts_per_source) ==
    LET url == entry.url IN
    IF url = 0 THEN acc
    ELSE LET observed == [acc EXCEPT !.observed_urls = Append(@, url)] IN
         IF url \in acc.seen_urls THEN observed
         ELSE LET is_recent == \/ entry.published_at = None
                               \/ entry.published_at[1] >= window_start
                  marked == [observed EXCEPT !.seen_urls = @ \cup {url}]
                  post == [source_id |-> source, url |-> url,
                           published_at |-> IF entry.published_at = None
                                            THEN NoRaw
                                            ELSE isoformat(entry.published_at[1])]
              IN  IF ~is_recent THEN marked
                  ELSE [marked EXCEPT !.new_posts = Append(@, post),
                                      !.all_new_posts = Append(@, post)]

\* process_entry with the comparison of line 362 strict: published_at >
\* window_start
process_entry_strict_window(acc, entry, source, window_start, max_posts_per_source) ==
    LET url == entry.url IN
    IF url = 0 THEN acc
    ELSE LET observed == [acc EXCEPT !.observed_urls = Append(@, url)] IN
         IF url \in acc.seen_urls THEN observed
         ELSE LET is_recent == \/ entry.published_at = None
                               \/ entry.published_at[1] > window_start
                  marked == [observed EXCEPT !.seen_urls = @ \cup {url}]
                  post == [source_id |-> source, url |-> url,
                           published_at |-> IF entry.published_at = None
                                            THEN NoRaw
                                            ELSE isoformat(entry.published_at[1])]
              IN  IF ~is_recent THEN marked
                  ELSE IF Len(marked.new_posts) >= max_posts_per_source THEN marked
                  ELSE [marked EXCEPT !.new_posts = Append(@, post),
                                      !.all_new_posts = Append(@, post)]

\* lines 351-383: the body of the loop over one source's entries
\* acc holds seen_urls, observed_urls, the source's new_posts, all_new_posts
process_entry(acc, entry, source, window_start, max_posts_per_source) ==
    LET url == entry.url IN
    IF url = 0 THEN acc
    ELSE LET observed == [acc EXCEPT !.observed_urls = Append(@, url)] IN
         IF url \in acc.seen_urls THEN observed
         ELSE LET is_recent == \/ entry.published_at = None
                               \/ entry.published_at[1] >= window_start
                  marked == [observed EXCEPT !.seen_urls = @ \cup {url}]
                  post == [source_id |-> source, url |-> url,
                           published_at |-> IF entry.published_at = None
                                            THEN NoRaw
                                            ELSE isoformat(entry.published_at[1])]
              IN  IF ~is_recent THEN marked
                  ELSE IF Len(marked.new_posts) >= max_posts_per_source THEN marked
                  ELSE [marked EXCEPT !.new_posts = Append(@, post),
                                      !.all_new_posts = Append(@, post)]

RECURSIVE process_entries(_, _, _, _, _)
process_entries(acc, entries, source, window_start, max_posts_per_source) ==
    IF entries = <<>> THEN acc
    ELSE process_entries(
             process_entry(acc, entries[1], source, window_start, max_posts_per_source),
             Tail(entries), source, window_start, max_posts_per_source)

\* lines 342-385: the body of the try, when neither the request nor the
\* parse raises
source_body(l, feed) ==
    LET source == Len(l.source_results) + 1
        entries == sort_entries(parse_feed(feed))
        acc == process_entries(
                   [seen_urls |-> l.seen_urls, observed_urls |-> l.observed_urls,
                    new_posts |-> <<>>, all_new_posts |-> l.all_new_posts],
                   entries, source, l.window_start, l.args.max_posts_per_source)
    IN  [l EXCEPT !.seen_urls = acc.seen_urls,
                  !.observed_urls = acc.observed_urls,
                  !.all_new_posts = acc.all_new_posts,
                  !.source_results =
                      Append(@, [source_id |-> source,
                                 new_posts |-> acc.new_posts,
                                 new_count |-> Len(acc.new_posts),
                                 fetched_count |-> Len(entries),
                                 error |-> "none"])]

\* the loop without the try/except of lines 341 and 386: the exception of a
\* source leaves collect_digest
process_source_uncaught(l, feed) ==
    IF fetch_error(feed) # "none"
    THEN [Blank EXCEPT !.pc = "raised", !.error = fetch_error(feed)]
    ELSE source_body(l, feed)

\* lines 332-389: one iteration of the loop over SOURCES
process_source(l, feed) ==
    IF fetch_error(feed) # "none"
    THEN [l EXCEPT !.source_results =
              Append(@, [source_id |-> Len(l.source_results) + 1,
                         new_posts |-> <<>>, new_count |-> 0,
                         fetched_count |-> 0, error |-> fetch_error(feed)])]
    ELSE source_body(l, feed)

\* finish_run in which a dry run returns before the final sort
finish_run_dry_unsorted(l, hn_ok) ==
    LET posts == IF l.args.no_state_update
                 THEN l.all_new_posts
                 ELSE sort_posts(l.all_new_posts)
    IN
    IF ~hn_ok
    THEN [Blank EXCEPT !.pc = "raised", !.error = "collect_hn: URLError"]
    ELSE [l EXCEPT !.all_new_posts = posts,
                   !.result = [generated_at |-> isoformat(l.now),
                               window_start |-> isoformat(l.window_start),
                               new_posts_total |-> Len(posts),
                               new_posts |-> posts,
                               sources |-> l.source_results],
                   !.pc = IF l.args.no_state_update THEN "done" ELSE "save"]

\* lines 391-406 and the branch at 408: the final sort, collect_hn (not inside
\* any try: a failed Hacker News request leaves collect_digest as an
\* exception), the result, and whether the state is to be saved
finish_run(l, hn_ok) ==
    LET posts == sort_posts(l.all_new_posts) IN
    IF ~hn_ok
    THEN [Blank EXCEPT !.pc = "raised", !.error = "collect_hn: URLError"]
    ELSE [l EXCEPT !.all_new_posts = posts,
                   !.result = [generated_at |-> isoformat(l.now),
                               window_start |-> isoformat(l.window_start),
                               new_posts_total |-> Len(posts),
                               new_posts |-> posts,
                               sources |-> l.source_results],
                   !.pc = IF l.args.no_state_update THEN "done" ELSE "save"]

\* lines 409-412 with last_run taken from window_start instead of now
make_updated_state_stamps_window(l) ==
    Object(isoformat(l.window_start),
           ListOf(prune_seen(l.observed_urls, get_seen_urls(l.state), limit)))

\* lines 409-412
make_updated_state(l) ==
    Object(isoformat(l.now),
           ListOf(prune_seen(l.observed_urls, get_seen_urls(l.state), limit)))

(***************************************************************************)
(* State.                                                                  *)
(*   file    the state document at args.state_file                         *)
(*   feeds   what each source's feed URL returns (the same at every run)   *)
(*   run     per process, the local variables of its collect_digest call   *)
(*   twin    per process, the local variables the same call would have     *)
(*           with no_state_update negated (same clock, same state read,    *)
(*           same feeds, same Hacker News outcome); it writes nothing      *)
(*   hist    history: is file exactly what the last completed save wrote   *)
(*           (fresh), and the URLs that run met with a timestamp before    *)
(*           its window (stale), and the URLs of the posts it returned     *)
(*           (posted)                                                      *)
(*   follow  per process, file and hist as they were when its run started  *)
(*   call    one call of a function of the decoder (clean_excerpt,         *)
(*           normalize_url, the timestamp and the link of an entry): its   *)
(*           arguments, and its value once it has returned                 *)
(*   clock   history, kept when clock.on: the last reading of utc_now()    *)
(*           (now), the generated_at and the window_start of the last run  *)
(*           that wrote the state (persisted, window), and the             *)
(*           window_start of the last run that started from a state file   *)
(*           as a run wrote it (linked)                                    *)
(***************************************************************************)
VARIABLES file, feeds, run, twin, hist, follow, call, clock

vars == <<file, feeds, run, twin, hist, follow, call, clock>>

Running(l) == l.pc \in {"sources", "save", "write"}

\* the non-empty URLs of the entries with a known timestamp before
\* window_start, over the sources whose fetch succeeds
StaleUrls(fs, window_start) ==
    {e.url : e \in {x \in UNION {Range(parse_feed(fs[s])) :
                                    s \in {t \in SOURCES : fetch_error(fs[t]) = "none"}} :
                      /\ x.url # 0
                      /\ x.published_at # None
                      /\ x.published_at[1] < window_start}}

NoHist == [fresh |-> FALSE, stale |-> {}, posted |-> {}]
NoFollow == [file |-> NoFile, quiet |-> FALSE, stale |-> {}, posted |-> {}]
NoCall == [pc |-> "none"]
NoClock == [on |-> FALSE]

\* now = utc_now() and lines 318-330
Start(p, now, args) ==
    /\ ~Running(run[p])
    /\ run' = [run EXCEPT ![p] = start_run(now, args, file)]
    /\ twin' = [twin EXCEPT ![p] =
                   start_run(now, [args EXCEPT !.no_state_update = ~@], file)]
    /\ follow' = [follow EXCEPT ![p] =
                     [file |-> file,
                      quiet |-> hist.fresh,
                      stale |-> IF hist.fresh THEN hist.stale ELSE {},
                      posted |-> IF hist.fresh THEN hist.posted ELSE {}]]
    /\ clock' = IF ~clock.on THEN clock
                ELSE [clock EXCEPT
                         !.now = now,
                         !.linked = IF hist.fresh /\ start_error(file) = "none"
                                    THEN Some(start_run(now, args, file).window_start)
                                    ELSE @]
    /\ UNCHANGED <<file, feeds, hist, call>>

\* one iteration of for source in SOURCES (lines 332-389)
ProcessSource(p) ==
    /\ run[p].pc = "sources"
    /\ Len(run[p].source_results) < NumSources
    /\ LET feed == feeds[Len(run[p].source_results) + 1] IN
       /\ run' = [run EXCEPT ![p] = process_source(@, feed)]
       /\ twin' = [twin EXCEPT ![p] = process_source(@, feed)]
    /\ UNCHANGED <<file, feeds, hist, follow, call, clock>>

\* lines 391-408; hn_ok: did every Hacker News request succeed
Finish(p, hn_ok) ==
    /\ run[p].pc = "sources"
    /\ Len(run[p].source_results) = NumSources
    /\ run' = [run EXCEPT ![p] = finish_run(@, hn_ok)]
    /\ twin' = [twin EXCEPT ![p] = finish_run(@, hn_ok)]
    /\ UNCHANGED <<file, feeds, hist, follow, call, clock>>

\* SaveOpen that loads the state file again and merges into what it finds
SaveOpen_rereads(p) ==
    /\ run[p].pc = "save"
    /\ run' = [run EXCEPT ![p].pc = "write",
                          ![p].updated_state =
                              Object(isoformat(run[p].now),
                                     ListOf(prune_seen(run[p].observed_urls,
                                                       get_seen_urls(load_state(file)),
                                                       limit)))]
    /\ file' = EmptyFile
    /\ hist' = NoHist
    /\ UNCHANGED <<feeds, twin, follow, call, clock>>

\* lines 409-413 up to the open() inside path.write_text (line 272), which
\* truncates the file
SaveOpen(p) ==
    /\ run[p].pc = "save"
    /\ run' = [run EXCEPT ![p].pc = "write",
                          ![p].updated_state = make_updated_state(run[p])]
    /\ file' = EmptyFile
    /\ hist' = NoHist
    /\ UNCHANGED <<feeds, twin, follow, call, clock>>

\* the write and close of path.write_text (line 272), and the return
SaveWrite(p) ==
    /\ run[p].pc = "write"
    /\ file' = json_dumps(run[p].updated_state)
    /\ run' = [run EXCEPT ![p].pc = "done"]
    /\ hist' = [fresh |-> TRUE, stale |-> StaleUrls(feeds, run[p].window_start),
                posted |-> {run[p].result.new_posts[n].url :
                               n \in DOMAIN run[p].result.new_posts}]
    /\ clock' = IF ~clock.on THEN clock
                ELSE [clock EXCEPT !.persisted = Some(run[p].now),
                                   !.window = Some(run[p].window_start)]
    /\ UNCHANGED <<feeds, twin, follow, call>>

\* the process is killed (signal, power loss) in the middle of a run
Crash(p) ==
    /\ Running(run[p])
    /\ run' = [run EXCEPT ![p] = [Blank EXCEPT !.pc = "crashed"]]
    /\ twin' = [twin EXCEPT ![p] = Blank]
    /\ follow' = [follow EXCEPT ![p] = NoFollow]
    /\ UNCHANGED <<file, feeds, hist, call, clock>>

\* the process ends: main() has printed the result, or the traceback
Exit(p) ==
    /\ run[p].pc \in {"done", "raised", "crashed"}
    /\ run' = [run EXCEPT ![p] = Blank]
    /\ twin' = [twin EXCEPT ![p] = Blank]
    /\ follow' = [follow EXCEPT ![p] = NoFollow]
    /\ UNCHANGED <<file, feeds, hist, call, clock>>

\* upstream: a feed URL whose requests failed starts to return a document
Publish(D) ==
    /\ \E s \in SOURCES, d \in D :
           /\ fetch_error(feeds[s]) # "none"
           /\ fetch_error(d) = "none"
           /\ feeds' = [feeds EXCEPT ![s] = d]
    /\ UNCHANGED <<file, run, twin, hist, follow, call, clock>>

\* summary = clean_excerpt(...) in parse_rss_entries / parse_atom_entries
CleanExcerpt ==
    /\ call.pc = "called"
    /\ call' = [call EXCEPT !.pc = "returned",
                            !.out = clean_excerpt(call.raw, call.max_chars, call.script)]
    /\ UNCHANGED <<file, feeds, run, twin, hist, follow, clock>>

\* "published_at": parse_datetime(published_raw) for one item or entry
EntryPublishedAt ==
    /\ call.pc = "called"
    /\ call' = [call EXCEPT !.pc = "returned",
                            !.out = entry_published_at(call.kind, call.children)]
    /\ UNCHANGED <<file, feeds, run, twin, hist, follow, clock>>

\* the link and "url": normalize_url(link) of one Atom entry
AtomEntryUrl ==
    /\ call.pc = "called"
    /\ call' = [call EXCEPT !.pc = "returned", !.out = atom_entry_url(call.links)]
    /\ UNCHANGED <<file, feeds, run, twin, hist, follow, clock>>

\* "url": normalize_url(link) for one link that urlsplit accepts
NormalizeUrl ==
    /\ call.pc = "called"
    /\ call' = [call EXCEPT !.pc = "returned", !.out = normalize_url_parts(call.url)]
    /\ UNCHANGED <<file, feeds, run, twin, hist, follow, clock>>

\* Start under a clock that never goes back: utc_now() (line 317) returns a
\* time that is not before the last one read
StartInOrder(p, now, args) ==
    /\ now >= clock.now
    /\ Start(p, now, args)

TotalEntries(fs) ==
    LET n(s) == IF fs[s].status = "xml" THEN Len(fs[s].entries) ELSE 0
        RECURSIVE Sum(_)
        Sum(k) == IF k = 0 THEN 0 ELSE n(k) + Sum(k - 1)
    IN  Sum(NumSources)

(***************************************************************************)
(* Input domains.                                                          *)
(***************************************************************************)
Stamps == {None} \cup {Some(t) : t \in Time}

\* one call of a function of the decoder, nothing else running
InitCall(C) ==
    /\ file = NoFile
    /\ feeds = [s \in SOURCES |-> NetErr]
    /\ run = [p \in Procs |-> Blank]
    /\ twin = [p \in Procs |-> Blank]
    /\ hist = NoHist
    /\ follow = [p \in Procs |-> NoFollow]
    /\ call \in C
    /\ clock = NoClock

FeedDocs(E, Failures) ==
    Failures \cup {Xml("rss", es) : es \in SeqsUpTo(E, MaxEntries)}

ArgSets(G, S, C) ==
    {[grace_hours |-> g, since_hours |-> h, max_posts_per_source |-> c,
      no_state_update |-> d] : g \in G, h \in S, c \in C, d \in BOOLEAN}

InitOf(F, D, total) ==
    /\ file \in F
    /\ feeds \in {fs \in [SOURCES -> D] : TotalEntries(fs) <= total}
    /\ run = [p \in Procs |-> Blank]
    /\ twin = [p \in Procs |-> Blank]
    /\ hist = NoHist
    /\ follow = [p \in Procs |-> NoFollow]
    /\ call = NoCall
    /\ clock = NoClock

NextOf(P, T, A) ==
    \/ \E p \in P, now \in T, args \in A : Start(p, now, args)
    \/ \E p \in P : ProcessSource(p)
    \/ \E p \in P, hn_ok \in BOOLEAN : Finish(p, hn_ok)
    \/ \E p \in P : SaveOpen(p)
    \/ \E p \in P : SaveWrite(p)
    \/ \E p \in P : Crash(p)
    \/ \E p \in P : Exit(p)

(***************************************************************************)
(* Spec: one process runs collect_digest again and again, starting without *)
(* a state file.  The feeds hold up to NumUrls distinct URLs, more than     *)
(* limit; a timestamp is unknown or 0; the clock reads 1 at every run.      *)
(***************************************************************************)
SpecEntries ==
    {Entry(u, ts) : u \in Urls, ts \in {None, Some(0)}} \cup {Entry(0, None)}
SpecFeeds == FeedDocs(SpecEntries, {NetErr})
SpecArgs == ArgSets({0, 1}, {0, 1}, {1})

Init == InitOf({NoFile}, SpecFeeds, MaxTotal)
Next == NextOf({1}, {1}, SpecArgs)
Spec == Init /\ [][Next]_vars

(***************************************************************************)
(* SpecState: one process runs collect_digest again and again, starting    *)
(* from any state document: absent, unreadable, of the wrong shape, with a *)
(* last_run of any kind and time, with a seen_urls list that may hold       *)
(* duplicates and empty strings.  Every feed holds at most one entry; a     *)
(* fetch can fail in each of the three ways.                                *)
(***************************************************************************)
PriorUrls == 0..(NumUrls - 1)
PriorLists == SeqsUpTo(PriorUrls, MaxPrior)
StateDocs ==
    {NoFile, GarbageFile, BadBytesFile, json_dumps(NonObject),
     json_dumps(Object(NonText, NoKey)), json_dumps(Object(BadText, NoKey)),
     json_dumps(Object(NoRaw, Scalar))}
        \cup {json_dumps(Object(isoformat(t), NoKey)) : t \in Time}
        \cup {json_dumps(Object(lr, ListOf(us))) :
                  lr \in {NoRaw, isoformat(MaxTime)}, us \in PriorLists}

StateEntries == {Entry(u, ts) : u \in PriorUrls, ts \in {None, Some(MaxTime)}}
StateFeeds ==
    {NetErr, Malformed, Xml("catalog", <<>>)}
        \cup {Xml("feed", es) : es \in SeqsUpTo(StateEntries, 1)}
StateArgs == ArgSets({0, 1}, {1}, {1})

InitState == InitOf(StateDocs, StateFeeds, MaxTotal)
NextState == NextOf({1}, Time, StateArgs)
SpecState == InitState /\ [][NextState]_vars

(***************************************************************************)
(* SpecWindow: one process runs collect_digest again and again, starting   *)
(* without a state file, at clock reading 40 (hours).  A timestamp is       *)
(* unknown, 38 (2 hours old) or 0 (40 hours old); the first-run lookback is *)
(* 30 hours (the default of --since-hours) or 40 hours; the cap is 1 or 2.  *)
(***************************************************************************)
WindowEntries ==
    {Entry(u, ts) : u \in Urls, ts \in {None, Some(0), Some(38)}}
WindowFeeds == FeedDocs(WindowEntries, {NetErr})
WindowArgs == ArgSets({2}, {30, 40}, {1, 2})

InitWindow == InitOf({NoFile}, WindowFeeds, MaxTotal)
NextWindow == NextOf({1}, {40}, WindowArgs)
SpecWindow == InitWindow /\ [][NextWindow]_vars

(***************************************************************************)
(* SpecRefresh: one process runs collect_digest again and again, starting  *)
(* from a state document without a last_run, with an unparseable one or     *)
(* with a parseable one, and with a seen_urls list of up to MaxPrior URLs   *)
(* (duplicates and empty strings included).  Every feed holds at most one   *)
(* undated entry, whose URL may or may not be in the prior list; the first- *)
(* run lookback and the grace period vary independently.                    *)
(***************************************************************************)
RefreshDocs ==
    {NoFile, GarbageFile, json_dumps(Object(isoformat(MaxTime), NoKey))}
        \cup {json_dumps(Object(lr, ListOf(us))) :
                  lr \in {NoRaw, BadText, isoformat(0)}, us \in PriorLists}
RefreshEntries == {Entry(u, None) : u \in Urls}
RefreshFeeds ==
    {NetErr} \cup {Xml("rss", es) : es \in SeqsUpTo(RefreshEntries, 1)}
RefreshArgs == ArgSets({0, 1}, {0, 1}, {1})

InitRefresh == InitOf(RefreshDocs, RefreshFeeds, MaxTotal)
NextRefresh == NextOf({1}, Time, RefreshArgs)
SpecRefresh == InitRefresh /\ [][NextRefresh]_vars

(***************************************************************************)
(* SpecUrl: one process runs collect_digest again and again, starting      *)
(* without a state file.  The feeds are documents whose items carry links   *)
(* with and without a utm_source parameter, no link, or a link urlsplit     *)
(* rejects; no item is dated.                                               *)
(***************************************************************************)
UrlLinks ==
    {NoLink} \cup {Link(r, u, TRUE) : r \in Urls, u \in 0..1}
             \cup {Link(1, u, FALSE) : u \in 0..1}
UrlItems == {[link |-> l, published |-> NoRaw] : l \in UrlLinks}
UrlFeeds ==
    {NetErr} \cup {Xml("rss", parse_rss_entries(items)) :
                      items \in SeqsUpTo(UrlItems, MaxEntries)}
UrlArgs == ArgSets({0}, {1}, {1})

InitUrl == InitOf({NoFile}, UrlFeeds, MaxTotal)
NextUrl == NextOf({1}, {1}, UrlArgs)
SpecUrl == InitUrl /\ [][NextUrl]_vars

(***************************************************************************)
(* SpecExcerpt: one call of clean_excerpt, in either script, on a raw text  *)
(* of up to MaxText units, with max_chars 2 or 3 (240 and 300 scaled to the *)
(* texts).                                                                  *)
(***************************************************************************)
RawTexts == SeqsUpTo({"a", " ", "&amp;", "<b>"}, MaxText)

InitExcerpt ==
    /\ file = NoFile
    /\ feeds = [s \in SOURCES |-> NetErr]
    /\ run = [p \in Procs |-> Blank]
    /\ twin = [p \in Procs |-> Blank]
    /\ hist = NoHist
    /\ follow = [p \in Procs |-> NoFollow]
    /\ call \in {[pc |-> "called", script |-> sc, raw |-> raw, max_chars |-> m,
                   out |-> <<>>] :
                      sc \in {"daily", "vicki"}, raw \in RawTexts, m \in {2, 3}}
    /\ clock = NoClock
NextExcerpt == CleanExcerpt
SpecExcerpt == InitExcerpt /\ [][NextExcerpt]_vars

(***************************************************************************)
(* SpecConc: two processes run collect_digest against the same state file, *)
(* in any interleaving of their steps, with state persistence enabled,     *)
(* while feeds that failed come back.  Every feed holds one undated entry.  *)
(***************************************************************************)
\* no more than limit URLs, so that nothing is cut when the state is pruned
ConcFeeds == {NetErr} \cup {Xml("rss", <<Entry(u, None)>>) : u \in 1..limit}
ConcArgs == {a \in ArgSets({0}, {1}, {1}) : ~a.no_state_update}

InitConc == InitOf({NoFile}, ConcFeeds, MaxTotal)
NextConc == NextOf(Procs, {1}, ConcArgs) \/ Publish(ConcFeeds)
SpecConc == InitConc /\ [][NextConc]_vars

(***************************************************************************)
(* SpecGrace: one process runs collect_digest again and again, starting    *)
(* without a state file or from a state document with last_run = MaxTime    *)
(* and at most one seen URL, at clock reading MaxTime.  An entry has one of *)
(* two URLs and any timestamp, known or not; the grace period is 0 or 1.    *)
(***************************************************************************)
GraceDocs ==
    {NoFile} \cup {json_dumps(Object(isoformat(MaxTime), ListOf(us))) :
                      us \in SeqsUpTo({1, 2}, 1)}
GraceEntries == {Entry(u, ts) : u \in {1, 2}, ts \in Stamps}
GraceFeeds == FeedDocs(GraceEntries, {NetErr})
GraceArgs == ArgSets({0, 1}, {1}, {1})

InitGrace == InitOf(GraceDocs, GraceFeeds, MaxTotal)
NextGrace == NextOf({1}, {MaxTime}, GraceArgs)
SpecGrace == InitGrace /\ [][NextGrace]_vars

(***************************************************************************)
(* SpecFail: one process runs collect_digest again and again, starting     *)
(* without a state file.  A fetch can fail in each of the three ways; a     *)
(* feed that answers lists up to MaxTotal undated entries, more than limit. *)
(***************************************************************************)
FailEntries == {Entry(u, None) : u \in Urls}
FailFeeds ==
    {NetErr, Malformed, Xml("catalog", <<>>)}
        \cup {Xml("rss", es) : es \in SeqsUpTo(FailEntries, MaxTotal)}
FailArgs == ArgSets({0}, {1}, {1})

InitFail == InitOf({NoFile}, FailFeeds, MaxTotal)
NextFail == NextOf({1}, {1}, FailArgs)
SpecFail == InitFail /\ [][NextFail]_vars

(***************************************************************************)
(* SpecTimestamp: the timestamp of one RSS item or Atom entry with up to    *)
(* MaxChildren child elements, in any document order: the date elements of  *)
(* both formats and a title, each empty, a date (0 or 1) or a text that is   *)
(* no date.                                                                 *)
(***************************************************************************)
DateTags == {"pubDate", "published", "updated", "created", "date", "title"}
DateTexts == {NoRaw, BadText} \cup {isoformat(t) : t \in Time}
DateChildren ==
    SeqsUpTo({[tag |-> g, text |-> x] : g \in DateTags, x \in DateTexts}, MaxChildren)

InitTimestamp ==
    InitCall({[pc |-> "called", kind |-> k, children |-> c, out |-> None] :
                 k \in {"rss", "atom"}, c \in DateChildren})
NextTimestamp == EntryPublishedAt
SpecTimestamp == InitTimestamp /\ [][NextTimestamp]_vars

(***************************************************************************)
(* SpecLink: the URL of one Atom entry with up to MaxLinks <link> children. *)
(* A rel is absent, empty, blank, alternate (plain, or padded and in         *)
(* capitals) or self; an href is absent, blank, or one of two URLs, plain or *)
(* padded.                                                                  *)
(***************************************************************************)
LinkRels ==
    {NoAttr, Attr("", FALSE, FALSE), Attr("", TRUE, FALSE),
     Attr("alternate", FALSE, FALSE), Attr("alternate", TRUE, TRUE),
     Attr("self", FALSE, FALSE)}
LinkHrefs ==
    {NoAttr, Attr(0, TRUE, FALSE), Attr(1, FALSE, FALSE), Attr(2, TRUE, FALSE)}
LinkChildren ==
    SeqsUpTo({[rel |-> r, href |-> h] : r \in LinkRels, h \in LinkHrefs}, MaxLinks)

InitLink ==
    InitCall({[pc |-> "called", links |-> c, out |-> [link |-> 0, url |-> 0]] :
                 c \in LinkChildren})
NextLink == AtomEntryUrl
SpecLink == InitLink /\ [][NextLink]_vars

(***************************************************************************)
(* SpecQuery: normalize_url on one URL with a query of up to MaxParams      *)
(* parameters.  The keys are tracking keys in several spellings, near       *)
(* misses (utm, reference) and id; the values are 1, a space in its two      *)
(* encodings, and the octets ff and fe.                                     *)
(***************************************************************************)
QueryKeys == {"utm_source", "UTM_Medium", "Ref", "SOURCE", "id", "utm", "reference"}
QueryVals == {"1", "%20", "%ff", "%fe"}
Queries == SeqsUpTo({[key |-> k, val |-> v] : k \in QueryKeys, v \in QueryVals}, MaxParams)
QueryUrls ==
    {[scheme |-> [word |-> "https", upper |-> up], netloc |-> "A.com", path |-> "/P",
      query |-> q, fragment |-> "Frag"] : up \in BOOLEAN, q \in Queries}

InitQuery ==
    InitCall({[pc |-> "called", url |-> u, out |-> u] : u \in QueryUrls})
NextQuery == NormalizeUrl
SpecQuery == InitQuery /\ [][NextQuery]_vars

(***************************************************************************)
(* SpecClock: one process runs collect_digest again and again, starting    *)
(* without a state file, under a clock that never goes back: every run      *)
(* reads a time not before the last reading.  grace_hours is 1 at every     *)
(* run, since_hours is 0 or 2; a feed fails or holds one undated entry.     *)
(***************************************************************************)
ClockFeeds == {NetErr, Xml("rss", <<Entry(1, None)>>)}
ClockArgs == ArgSets({1}, {0, 2}, {1})

InitClock ==
    /\ file = NoFile
    /\ feeds \in [SOURCES -> ClockFeeds]
    /\ run = [p \in Procs |-> Blank]
    /\ twin = [p \in Procs |-> Blank]
    /\ hist = NoHist
    /\ follow = [p \in Procs |-> NoFollow]
    /\ call = NoCall
    /\ clock = [on |-> TRUE, now |-> 0, persisted |-> None, window |-> None,
                linked |-> None]

NextClock ==
    \/ \E now \in Time, args \in ClockArgs : StartInOrder(1, now, args)
    \/ ProcessSource(1)
    \/ \E hn_ok \in BOOLEAN : Finish(1, hn_ok)
    \/ SaveOpen(1)
    \/ SaveWrite(1)
    \/ Crash(1)
    \/ Exit(1)

SpecClock == InitClock /\ [][NextClock]_vars

(***************************************************************************)
(* Vocabulary of the properties.                                           *)
(***************************************************************************)
\* the run has built its result (line 399): it is saving or has returned
HasResult(l) == l.pc \in {"save", "write", "done"}
\* the run has computed the state document it persists (lines 409-412)
HasUpdatedState(l) ==
    l.pc = "write" \/ (l.pc = "done" /\ ~l.args.no_state_update)
UpdatedSeen(l) == l.updated_state.seen_urls.items
PostUrls(posts) == {posts[i].url : i \in DOMAIN posts}
NoDuplicates(s) == \A i, j \in DOMAIN s : s[i] = s[j] => i = j
Occurrences(s, x) == Cardinality({i \in DOMAIN s : s[i] = x})
StartErrors == {"UnicodeDecodeError", "AttributeError", "TypeError"}

(***************************************************************************)
(* C1  Idempotence across runs: a run that starts from the state document  *)
(* the previous run saved, with every source returning the same entries as *)
(* on that run, and that persists state itself, has an empty new_posts.    *)
(***************************************************************************)
C1_Idempotence ==
    \A p \in Procs :
        (HasResult(run[p]) /\ follow[p].quiet /\ ~run[p].args.no_state_update)
            => run[p].result.new_posts = <<>>

(***************************************************************************)
(* C2  Stable re-surfacing prevention: a non-empty URL met with a timestamp *)
(* before window_start is in the run's seen-set, is in the seen_urls the    *)
(* run persists, and is in no post of the run that starts from that state   *)
(* document, whatever that run's window.                                    *)
(***************************************************************************)
C2_NoResurfacing ==
    \A p \in Procs :
        /\ HasResult(run[p])
              => StaleUrls(feeds, run[p].window_start) \subseteq run[p].seen_urls
        /\ HasUpdatedState(run[p])
              => StaleUrls(feeds, run[p].window_start) \subseteq Range(UpdatedSeen(run[p]))
        /\ HasResult(run[p])
              => follow[p].stale \cap PostUrls(run[p].result.new_posts) = {}

(***************************************************************************)
(* C3  Within one run no canonical URL is in more than one post of          *)
(* new_posts, and the URL of every post occurs exactly once in the          *)
(* seen_urls list the run persists.                                         *)
(***************************************************************************)
C3_OncePerRun ==
    \A p \in Procs :
        /\ HasResult(run[p])
              => \A i, j \in DOMAIN run[p].result.new_posts :
                     run[p].result.new_posts[i].url = run[p].result.new_posts[j].url
                         => i = j
        /\ HasUpdatedState(run[p])
              => \A u \in PostUrls(run[p].result.new_posts) :
                     Occurrences(UpdatedSeen(run[p]), u) = 1

(***************************************************************************)
(* C4  The seen_urls list a run writes holds no duplicate and no empty URL *)
(* and at most limit entries, whatever the state document it started from  *)
(* (a seen_urls list with duplicates or empty strings included).            *)
(***************************************************************************)
WrittenSeen == file.doc.seen_urls.items

C5_WindowNotInFuture ==
    \A p \in Procs :
        run[p].pc \in {"sources", "save", "write", "done"}
            => run[p].window_start <= run[p].now

(***************************************************************************)
(* C6  Per-source failure isolation: a source whose fetch or decode fails   *)
(* (network error, malformed document, unsupported root) gets that error    *)
(* in its report and no posts; the run does not abort because of it; every  *)
(* other source is processed: its report counts the entries fetched, and    *)
(* the first entry of it that is new and recent is emitted.                 *)
(***************************************************************************)
IsRecent(entry, window_start) ==
    entry.published_at = None \/ entry.published_at[1] >= window_start

\* the URLs in the seen-set when source i is started
SeenBefore(l, i) ==
    Range(get_seen_urls(l.state))
        \cup {e.url : e \in UNION {Range(parse_feed(feeds[j])) :
                                      j \in {k \in 1..(i - 1) : fetch_error(feeds[k]) = "none"}}}

\* entry k of the sorted entries es is the first of its URL, new and recent
Eligible(es, k, seen, window_start) ==
    /\ es[k].url # 0
    /\ es[k].url \notin seen
    /\ \A j \in 1..(k - 1) : es[j].url # es[k].url
    /\ IsRecent(es[k], window_start)

C6_FailureIsolation ==
    \A p \in Procs :
        /\ run[p].pc = "raised"
              => run[p].error \in StartErrors \cup {"collect_hn: URLError"}
        /\ HasResult(run[p]) => Len(run[p].result.sources) = NumSources
        /\ run[p].pc \in {"sources", "save", "write", "done"}
              => \A i \in DOMAIN run[p].source_results :
                     LET r == run[p].source_results[i]
                         err == fetch_error(feeds[i])
                     IN  /\ r.error = err
                         /\ err # "none" =>
                                r.new_posts = <<>> /\ r.new_count = 0
                         /\ err = "none" =>
                                LET es == sort_entries(parse_feed(feeds[i]))
                                    first == {k \in DOMAIN es :
                                                 /\ Eligible(es, k, SeenBefore(run[p], i),
                                                             run[p].window_start)
                                                 /\ \A j \in 1..(k - 1) :
                                                        ~Eligible(es, j, SeenBefore(run[p], i),
                                                                  run[p].window_start)}
                                IN  /\ r.fetched_count = Len(es)
                                    /\ \A k \in first :
                                           run[p].args.max_posts_per_source >= 1
                                               => /\ r.new_posts # <<>>
                                                  /\ r.new_posts[1].url = es[k].url

\* the first source failed on an unsupported root and the second source's
\* entry is in the returned new_posts
C6_Witness ==
    \E p \in Procs :
        /\ run[p].pc = "done"
        /\ feeds[1] = Xml("catalog", <<>>)
        /\ run[p].result.sources[1].error = "Unsupported feed format"
        /\ run[p].result.sources[2].new_count = 1
        /\ run[p].result.new_posts # <<>>

(***************************************************************************)
(* C7  No fatal error path: no failure of an external fetch makes the run   *)
(* raise; when every source fails the result has an empty new_posts and one *)
(* error report per source, and unless the run is dry the state is saved.   *)
(***************************************************************************)
AllSourcesFail == \A s \in SOURCES : fetch_error(feeds[s]) # "none"

C7_NoFatalPath ==
    \A p \in Procs :
        /\ run[p].pc = "raised" => run[p].error \in StartErrors
        /\ (HasResult(run[p]) /\ AllSourcesFail)
              => /\ run[p].result.new_posts = <<>>
                 /\ Len(run[p].result.sources) = NumSources
                 /\ \A i \in DOMAIN run[p].result.sources :
                        run[p].result.sources[i].error # "none"
        /\ (run[p].pc = "done" /\ ~run[p].args.no_state_update)
              => file = json_dumps(run[p].updated_state)

(***************************************************************************)
(* C8  State loading never makes a run fail: whatever the state file holds  *)
(* no error is surfaced, and when it is absent, not JSON, or JSON of the    *)
(* wrong shape the run is a first run with empty state.                     *)
(***************************************************************************)
WellShaped(f) ==
    /\ f.kind = "json"
    /\ f.doc.shape = "object"
    /\ f.doc.last_run.k # "nontext"
    /\ f.doc.seen_urls.k # "scalar"

C8_StateLoadNeverFails ==
    \A p \in Procs :
        /\ run[p].pc = "raised" => run[p].error \notin StartErrors
        /\ (run[p].pc \in {"sources", "save", "write", "done"} /\ ~WellShaped(follow[p].file))
              => /\ run[p].state = EmptyState
                 /\ run[p].window_start = run[p].now - run[p].args.since_hours

(***************************************************************************)
(* C9  Dry run: with no_state_update set the run leaves the state file as   *)
(* it found it, and its result (window_start, new_posts, per-source         *)
(* reports) is the result the run has with persistence enabled, for the     *)
(* same prior state, clock and feeds.                                       *)
(***************************************************************************)
C9_DryRun ==
    \A p \in Procs :
        /\ run[p].pc # "idle" /\ run[p].pc # "crashed"
              => (run[p].pc = "raised") = (twin[p].pc = "raised")
        /\ HasResult(run[p])
              => /\ HasResult(twin[p])
                 /\ twin[p].args.no_state_update = ~run[p].args.no_state_update
                 /\ twin[p].result = run[p].result
        /\ (run[p].pc \in {"sources", "done"} /\ run[p].args.no_state_update)
              => file = follow[p].file

\* a dry run has returned two posts, the post of source 2 sorted first
C9_Witness ==
    \E p \in Procs :
        /\ run[p].pc = "done"
        /\ run[p].args.no_state_update
        /\ file = follow[p].file
        /\ Len(run[p].result.new_posts) = 2
        /\ run[p].result.new_posts[1].source_id = 2
        /\ twin[p].pc = "save"

(***************************************************************************)
(* C10  The state file is replaced atomically: at every point of            *)
(* save_state it holds the complete previous document or the complete new   *)
(* one, never an empty or partly written one.                               *)
(***************************************************************************)
C10_AtomicReplace ==
    /\ file.kind # "empty"
    /\ \A p \in Procs :
           run[p].pc = "write"
               => file \in {follow[p].file, json_dumps(run[p].updated_state)}

(***************************************************************************)
(* C11  Window admission boundary: an entry with a non-empty URL that is    *)
(* not in the seen-set when it is reached, in a source below its cap, is    *)
(* emitted when its published_at equals window_start, and is not emitted    *)
(* when its published_at is one time step before window_start.              *)
(***************************************************************************)
\* entry k of the sorted entries es is reached with its URL non-empty and
\* not in the seen-set
ReachedUnseen(es, k, seen) ==
    /\ es[k].url # 0
    /\ es[k].url \notin seen
    /\ \A j \in 1..(k - 1) : es[j].url # es[k].url

\* the source has emitted fewer than cap posts when entry k is reached
BelowCap(es, k, seen, window_start, cap) ==
    Cardinality({j \in 1..(k - 1) : Eligible(es, j, seen, window_start)}) < cap

C11_WindowBoundary ==
    \A p \in Procs :
        run[p].pc \in {"sources", "save", "write", "done"}
            => \A i \in DOMAIN run[p].source_results :
                   fetch_error(feeds[i]) = "none" =>
                       LET es == sort_entries(parse_feed(feeds[i]))
                           seen == SeenBefore(run[p], i)
                           ws == run[p].window_start
                           r == run[p].source_results[i]
                       IN  \A k \in DOMAIN es :
                               (/\ ReachedUnseen(es, k, seen)
                                /\ BelowCap(es, k, seen, ws, run[p].args.max_posts_per_source)
                                /\ es[k].published_at # None)
                                   => /\ es[k].published_at[1] = ws
                                         => \E n \in DOMAIN r.new_posts :
                                                /\ r.new_posts[n].url = es[k].url
                                                /\ r.new_posts[n].published_at = isoformat(ws)
                                      /\ es[k].published_at[1] = ws - 1
                                         => es[k].url \notin PostUrls(run[p].all_new_posts)

\* a run has returned a post whose published_at is its window_start
C11_Witness ==
    \E p \in Procs :
        /\ run[p].pc = "done"
        /\ \E n \in DOMAIN run[p].result.new_posts :
               run[p].result.new_posts[n].published_at = run[p].result.window_start

(***************************************************************************)
(* C12  First-run scenario: with empty prior state, a 30-hour lookback and  *)
(* a single source feed holding two items with distinct URLs, 2 hours and   *)
(* 40 hours old, the run emits exactly one post, the 2-hour-old item, and   *)
(* the seen_urls it persists holds both URLs.                               *)
(***************************************************************************)
\* source 1's feed holds exactly the two items (in either order); no other
\* source returns an entry
ScenarioFeeds(now, recent, old) ==
    /\ recent # 0 /\ old # 0 /\ recent # old
    /\ feeds[1].status = "xml"
    /\ feeds[1].root \in {"rss", "rdf", "feed"}
    /\ feeds[1].entries \in {<<Entry(recent, Some(now - 2)), Entry(old, Some(now - 40))>>,
                             <<Entry(old, Some(now - 40)), Entry(recent, Some(now - 2))>>}
    /\ \A s \in SOURCES \ {1} :
           fetch_error(feeds[s]) # "none" \/ parse_feed(feeds[s]) = <<>>

C12_FirstRunScenario ==
    \A p \in Procs, recent, old \in Urls :
        (/\ run[p].pc \in {"save", "write", "done"}
         /\ run[p].state = EmptyState
         /\ run[p].args.since_hours = 30
         /\ run[p].args.max_posts_per_source >= 1
         /\ ScenarioFeeds(run[p].now, recent, old))
            => /\ run[p].result.new_posts_total = 1
               /\ Len(run[p].result.new_posts) = 1
               /\ run[p].result.new_posts[1].url = recent
               /\ run[p].result.new_posts[1].published_at = isoformat(run[p].now - 2)
               /\ HasUpdatedState(run[p])
                     => {recent, old} \subseteq Range(UpdatedSeen(run[p]))
               /\ (run[p].pc = "done" /\ ~run[p].args.no_state_update)
                     => /\ file = json_dumps(run[p].updated_state)
                        /\ {recent, old} \subseteq Range(WrittenSeen)

\* the scenario has run to its end with the old item listed first in the
\* feed, and the state is written
C12_Witness ==
    \E p \in Procs :
        /\ run[p].pc = "done"
        /\ ~run[p].args.no_state_update
        /\ follow[p].file = NoFile
        /\ run[p].args.since_hours = 30
        /\ ScenarioFeeds(run[p].now, 2, 1)
        /\ feeds[1].entries[1].url = 1
        /\ hist.fresh

(***************************************************************************)
(* C15  new_posts is ordered by timestamp descending across all sources:    *)
(* of two posts with known timestamps the later one comes first, and every  *)
(* post with an unknown timestamp comes after every post with a known one.  *)
(***************************************************************************)
PostTime(post) == parse_datetime(post.published_at)

C15_GlobalOrder ==
    \A p \in Procs :
        HasResult(run[p])
            => \A i, j \in DOMAIN run[p].result.new_posts :
                   i < j =>
                       LET a == PostTime(run[p].result.new_posts[i])
                           b == PostTime(run[p].result.new_posts[j])
                       IN  /\ (a # None /\ b # None) => a[1] >= b[1]
                           /\ a = None => b = None

\* three posts: the newest comes from source 2, the undated one is last
C15_Witness ==
    \E p \in Procs :
        /\ run[p].pc = "done"
        /\ Len(run[p].result.new_posts) = 3
        /\ run[p].result.new_posts[1].source_id = 2
        /\ PostTime(run[p].result.new_posts[1]) = Some(38)
        /\ PostTime(run[p].result.new_posts[2]) = Some(0)
        /\ PostTime(run[p].result.new_posts[3]) = None

(***************************************************************************)
(* C17  Per-source selection: the posts of a source are exactly the first   *)
(* max_posts_per_source eligible entries in the source's timestamp-         *)
(* descending order (unknown timestamps last), an entry being eligible iff  *)
(* its URL is non-empty, was not in the seen-set when the entry was         *)
(* reached, and its timestamp is unknown or >= window_start; no source      *)
(* emits more than max_posts_per_source posts.                              *)
(***************************************************************************)
\* the eligible entries of es, in the order of es
EligibleSeq(es, seen, window_start) ==
    LET idx == SelectSeq([k \in 1..Len(es) |-> k],
                         LAMBDA k : Eligible(es, k, seen, window_start))
    IN  [n \in 1..Len(idx) |-> es[idx[n]]]

FirstN(s, n) == SubSeq(s, 1, IF n <= Len(s) THEN n ELSE Len(s))

\* es holds the entries of the feed, newest first, unknown timestamps last
IsSortedFeed(es, entries) ==
    /\ Len(es) = Len(entries)
    /\ \A e \in Range(entries) :
           Cardinality({k \in DOMAIN es : es[k] = e})
               = Cardinality({k \in DOMAIN entries : entries[k] = e})
    /\ \A a, b \in DOMAIN es :
           a < b => /\ es[a].published_at = None => es[b].published_at = None
                    /\ (es[a].published_at # None /\ es[b].published_at # None)
                           => es[a].published_at[1] >= es[b].published_at[1]

C17_PerSourceSelection ==
    \A p \in Procs :
        run[p].pc \in {"sources", "save", "write", "done"}
            => \A i \in DOMAIN run[p].source_results :
                   LET r == run[p].source_results[i]
                       cap == run[p].args.max_posts_per_source
                   IN  /\ Len(r.new_posts) <= cap
                       /\ r.new_count = Len(r.new_posts)
                       /\ fetch_error(feeds[i]) = "none" =>
                              LET es == sort_entries(parse_feed(feeds[i]))
                                  expected == FirstN(EligibleSeq(es, SeenBefore(run[p], i),
                                                                 run[p].window_start), cap)
                              IN  /\ IsSortedFeed(es, parse_feed(feeds[i]))
                                  /\ Len(r.new_posts) = Len(expected)
                                  /\ \A n \in DOMAIN expected :
                                         /\ r.new_posts[n].url = expected[n].url
                                         /\ PostTime(r.new_posts[n]) = expected[n].published_at
                                         /\ r.new_posts[n].source_id = i

\* source 1 lists an old and a newer eligible entry, oldest first, and with
\* cap 1 emits the newer one only
C17_Witness ==
    \E p \in Procs :
        /\ run[p].pc = "done"
        /\ run[p].args.max_posts_per_source = 1
        /\ feeds[1] = Xml("rss", <<Entry(1, Some(0)), Entry(2, Some(38))>>)
        /\ run[p].window_start = 0
        /\ follow[p].file = NoFile
        /\ run[p].result.sources[1].new_count = 1
        /\ run[p].result.sources[1].new_posts[1].url = 2

(***************************************************************************)
(* C18  Pruning for persistence: the persisted seen_urls is the first limit *)
(* elements of observed_urls followed by the prior seen_urls with only the  *)
(* first occurrence of each non-empty URL kept; so every URL observed this  *)
(* run precedes every prior URL not observed this run, and when the bound   *)
(* is exceeded it is the tail that is dropped.                              *)
(***************************************************************************)
\* s with the empty URL and every repeated occurrence removed
RECURSIVE KeepFirst(_)
KeepFirst(s) ==
    IF s = <<>> THEN <<>>
    ELSE LET before == KeepFirst(SubSeq(s, 1, Len(s) - 1))
             x == s[Len(s)]
         IN  IF x = 0 \/ x \in Range(before) THEN before ELSE Append(before, x)

\* the seen_urls of the state document the run started from
PriorSeen(p) == get_seen_urls(load_state(follow[p].file))

IndexOf(s, x) == CHOOSE i \in DOMAIN s : s[i] = x

C18_PrunedForPersistence ==
    \A p \in Procs :
        /\ HasUpdatedState(run[p])
              => LET merged == KeepFirst(run[p].observed_urls \o PriorSeen(p))
                     kept == UpdatedSeen(run[p])
                 IN  /\ kept = FirstN(merged, limit)
                     /\ \A u \in Range(run[p].observed_urls),
                           v \in Range(PriorSeen(p)) \ Range(run[p].observed_urls) :
                            (u \in Range(kept) /\ v \in Range(kept))
                                => IndexOf(kept, u) < IndexOf(kept, v)
                     /\ \A i \in DOMAIN merged :
                            (i <= limit) = (merged[i] \in Range(kept))
        /\ (run[p].pc = "done" /\ ~run[p].args.no_state_update)
              => /\ file = json_dumps(run[p].updated_state)
                 /\ file.doc.last_run = isoformat(run[p].now)

\* the merged list is longer than the bound: an observed URL is written
\* first and the last prior URL is dropped
C18_Witness ==
    \E p \in Procs :
        /\ run[p].pc = "done"
        /\ ~run[p].args.no_state_update
        /\ PriorSeen(p) = <<1, 2>>
        /\ run[p].observed_urls = <<3>>
        /\ WrittenSeen = <<3, 1>>

(***************************************************************************)
(* C19  Observation refresh: every entry with a non-empty URL is appended   *)
(* to observed_urls even when its URL is already in the seen-set, so a      *)
(* prior URL met again in this run is persisted ahead of every prior URL    *)
(* not met again and is kept in preference to them when the list is cut.    *)
(***************************************************************************)
\* the non-empty URLs of the entries of sources 1..n, in the order the
\* entries are reached
RECURSIVE Encountered(_)
Encountered(n) ==
    IF n = 0 THEN <<>>
    ELSE Encountered(n - 1) \o
         (IF fetch_error(feeds[n]) # "none" THEN <<>>
          ELSE LET es == sort_entries(parse_feed(feeds[n]))
               IN  SelectSeq([k \in 1..Len(es) |-> es[k].url], LAMBDA u : u # 0))

C19_ObservationRefresh ==
    \A p \in Procs :
        /\ run[p].pc \in {"sources", "save", "write", "done"}
              => run[p].observed_urls = Encountered(Len(run[p].source_results))
        /\ HasUpdatedState(run[p])
              => \A u \in Range(PriorSeen(p)) \cap Range(Encountered(NumSources)),
                    v \in Range(PriorSeen(p)) \ Range(Encountered(NumSources)) :
                     (u # 0 /\ v \in Range(UpdatedSeen(run[p])))
                         => /\ u \in Range(UpdatedSeen(run[p]))
                            /\ IndexOf(UpdatedSeen(run[p]), u) < IndexOf(UpdatedSeen(run[p]), v)

\* the prior list is <<1, 2>>; URL 2 is met again together with the new
\* URL 3: URL 2 is written and URL 1, which came before it, is dropped
C19_Witness ==
    \E p \in Procs :
        /\ run[p].pc = "done"
        /\ ~run[p].args.no_state_update
        /\ PriorSeen(p) = <<1, 2>>
        /\ run[p].observed_urls = <<3, 2>>
        /\ run[p].result.new_posts_total = 1
        /\ WrittenSeen = <<3, 2>>

(***************************************************************************)
(* C20  Window computation: window_start is last_run minus grace_hours when *)
(* the loaded state holds a parseable last_run, and now minus since_hours   *)
(* otherwise (no state, no last_run key, an unparseable last_run).          *)
(***************************************************************************)
\* the state document the run started from holds a last_run that parses
HasLastRun(f) ==
    /\ f.kind = "json"
    /\ f.doc.shape = "object"
    /\ f.doc.last_run.k = "iso"

C20_WindowComputation ==
    \A p \in Procs :
        run[p].pc \in {"sources", "save", "write", "done"}
            => /\ HasLastRun(follow[p].file)
                     => run[p].window_start
                            = follow[p].file.doc.last_run.t - run[p].args.grace_hours
               /\ ~HasLastRun(follow[p].file)
                     => run[p].window_start = run[p].now - run[p].args.since_hours
               /\ HasResult(run[p])
                     => run[p].result.window_start = isoformat(run[p].window_start)

\* a run from a state with last_run 0, at clock 1, with grace 1 and lookback
\* 0: the two formulas differ (-1 and 1)
C20_Witness ==
    \E p \in Procs :
        /\ run[p].pc = "done"
        /\ HasLastRun(follow[p].file)
        /\ follow[p].file.doc.last_run = isoformat(0)
        /\ run[p].now = 1
        /\ run[p].args.grace_hours = 1
        /\ run[p].args.since_hours = 0
        /\ run[p].result.window_start = isoformat(-1)

(***************************************************************************)
(* C13  URL identity: two URLs that differ only in a utm_source parameter   *)
(* canonicalize to the same value, and are one identity: at most one post   *)
(* is emitted for them when both are in the feeds of one run, or one was in *)
(* an earlier persisted run and one is met now.                             *)
(***************************************************************************)
\* a and b are URLs (urlsplit accepts them) that differ at most in their
\* utm_source parameter
SameButUtm(a, b) ==
    /\ a.k = "link" /\ b.k = "link"
    /\ a.splits /\ b.splits
    /\ a.rest = b.rest

C13_UrlIdentity ==
    \A a, b \in UrlLinks :
        SameButUtm(a, b)
            => /\ normalize_url(a) = normalize_url(b)
               /\ \A p \in Procs :
                      HasResult(run[p])
                          => /\ Cardinality({n \in DOMAIN run[p].result.new_posts :
                                                run[p].result.new_posts[n].url
                                                    \in {normalize_url(a), normalize_url(b)}}) <= 1
                             /\ normalize_url(a) \in follow[p].posted
                                   => normalize_url(b) \notin PostUrls(run[p].result.new_posts)

(***************************************************************************)
(* C14  Bounded excerpt: for every input whose sanitized text (entities     *)
(* decoded, tags removed, whitespace collapsed and trimmed) is longer than  *)
(* max_len, clean_excerpt returns exactly max_len characters, the last of   *)
(* which is the single ellipsis character, in both scripts.                 *)
(***************************************************************************)
Sanitized(raw) == strip(WS_RE_sub(TAG_RE_sub(html_unescape(raw))))

C14_BoundedExcerpt ==
    (call.pc = "returned" /\ Len(Sanitized(call.raw)) > call.max_chars)
        => /\ Len(call.out) = call.max_chars
           /\ call.out[call.max_chars] = "U+2026"
           /\ Cardinality({i \in DOMAIN call.out : call.out[i] = "U+2026"}) = 1

(***************************************************************************)
(* C16  Concurrent runs against the same state file are not serialised:     *)
(* each run reads the state once at its start and writes once at its end,   *)
(* and what it writes is computed from what it read, so the file after a    *)
(* write is exactly the writer's state; there is an interleaving of two     *)
(* runs after which a URL recorded as seen only by the earlier writer is    *)
(* missing from the file (lost update, last writer wins).                   *)
(***************************************************************************)
\* the document process p writes: its clock, and its observed URLs merged
\* into the seen_urls of the file as it was when p started
DocumentOf(p) ==
    Object(isoformat(run[p].now),
           ListOf(FirstN(KeepFirst(run[p].observed_urls \o PriorSeen(p)), limit)))

C16_LastWriterWins ==
    [][/\ \A p \in Procs :
             /\ (Running(run[p]) /\ Running(run'[p]))
                   => /\ run'[p].state = run[p].state
                      /\ run[p].state = load_state(follow[p].file)
             /\ (run[p].pc = "write" /\ run'[p].pc = "done")
                   => file' = json_dumps(DocumentOf(p))
       /\ file' # file
             => \E p \in Procs :
                    \/ run[p].pc = "save" /\ run'[p].pc = "write"
                    \/ run[p].pc = "write" /\ run'[p].pc = "done"]_vars

\* both runs started from the same file and have written; the file is the
\* second process's document and lacks a URL of the first one's document
C16_Witness ==
    /\ run[1].pc = "done" /\ ~run[1].args.no_state_update
    /\ run[2].pc = "done" /\ ~run[2].args.no_state_update
    /\ follow[1].file = follow[2].file
    /\ file = json_dumps(run[2].updated_state)
    /\ hist.fresh
    /\ \E u \in Range(UpdatedSeen(run[1])) : u \notin Range(WrittenSeen)

(***************************************************************************)
(* C21  Grace re-admission without duplicates: on a run with a persisted    *)
(* last_run, an entry whose URL is not in the seen-set and whose timestamp  *)
(* lies in [last_run - grace_hours, last_run) is emitted (source cap        *)
(* permitting), while an entry whose URL is in the persisted seen-set is    *)
(* never emitted, whatever its timestamp.                                   *)
(***************************************************************************)
C21_GraceReadmission ==
    \A p \in Procs :
        run[p].pc \in {"sources", "save", "write", "done"}
            => \A i \in DOMAIN run[p].source_results :
                   fetch_error(feeds[i]) = "none" =>
                       LET es == sort_entries(parse_feed(feeds[i]))
                           seen == SeenBefore(run[p], i)
                           r == run[p].source_results[i]
                       IN  \A k \in DOMAIN es :
                               /\ (/\ HasLastRun(follow[p].file)
                                   /\ ReachedUnseen(es, k, seen)
                                   /\ BelowCap(es, k, seen, run[p].window_start,
                                               run[p].args.max_posts_per_source)
                                   /\ es[k].published_at # None
                                   /\ es[k].published_at[1]
                                          >= follow[p].file.doc.last_run.t - run[p].args.grace_hours
                                   /\ es[k].published_at[1] < follow[p].file.doc.last_run.t)
                                      => es[k].url \in PostUrls(r.new_posts)
                               /\ es[k].url \in Range(PriorSeen(p))
                                      => es[k].url \notin PostUrls(run[p].all_new_posts)

\* from last_run 1 and seen_urls [1], with grace 1: the entry of URL 2
\* stamped 0 is emitted, the entry of URL 1 stamped 1 is not
C21_Witness ==
    \E p \in Procs :
        /\ run[p].pc = "done"
        /\ HasLastRun(follow[p].file)
        /\ PriorSeen(p) = <<1>>
        /\ run[p].args.grace_hours = 1
        /\ feeds[1] = Xml("rss", <<Entry(1, Some(follow[p].file.doc.last_run.t)),
                                   Entry(2, Some(follow[p].file.doc.last_run.t - 1))>>)
        /\ PostUrls(run[p].result.new_posts) = {2}

(***************************************************************************)
(* C22  A failed source changes nothing but its own report: the iteration   *)
(* of a source whose fetch or decode fails leaves the seen-set, the         *)
(* observed_urls and the new_posts as they were and appends the source's     *)
(* error report; and when the run writes its state, the URLs that the        *)
(* sources before a failed one added are in the seen_urls it writes.         *)
(***************************************************************************)
FailedSourceFrame ==
    \A p \in Procs :
        (/\ run[p].pc = "sources"
         /\ Len(run'[p].source_results) = Len(run[p].source_results) + 1
         /\ fetch_error(feeds[Len(run[p].source_results) + 1]) # "none")
            => /\ run'[p].seen_urls = run[p].seen_urls
               /\ run'[p].observed_urls = run[p].observed_urls
               /\ run'[p].all_new_posts = run[p].all_new_posts
               /\ run'[p].source_results =
                      Append(run[p].source_results,
                             [source_id |-> Len(run[p].source_results) + 1,
                              new_posts |-> <<>>, new_count |-> 0,
                              fetched_count |-> 0,
                              error |-> fetch_error(feeds[Len(run[p].source_results) + 1])])

EarlierAdditionsPersisted ==
    \A p \in Procs :
        (run[p].pc = "write" /\ run'[p].pc = "done")
            => \A i \in SOURCES :
                   fetch_error(feeds[i]) # "none"
                       => /\ Range(Encountered(i - 1)) \subseteq run[p].seen_urls
                          /\ Range(Encountered(i - 1)) \subseteq Range(run[p].observed_urls)
                          /\ Range(Encountered(i - 1)) \subseteq Range(WrittenSeen')

C22_FailedSourceChangesNothing ==
    [][FailedSourceFrame /\ EarlierAdditionsPersisted]_vars

(***************************************************************************)
(* C23  Timestamp field priority: the timestamp of an entry is taken from   *)
(* the first present element in the priority order (RSS: pubDate,           *)
(* published, updated, date; Atom: published, updated, created, date),      *)
(* whatever the order of those elements in the document.                    *)
(***************************************************************************)
Priority(kind) ==
    IF kind = "rss" THEN <<"pubDate", "published", "updated", "date">>
    ELSE <<"published", "updated", "created", "date">>

\* an element is present when it has a text
Present(children, name) ==
    {i \in DOMAIN children : children[i].tag = name /\ children[i].text # NoRaw}

FirstByPriority(children, order) ==
    LET ks == {k \in DOMAIN order : Present(children, order[k]) # {}} IN
    IF ks = {} THEN NoRaw
    ELSE LET k == CHOOSE x \in ks : \A y \in ks : x <= y
             i == CHOOSE x \in Present(children, order[k]) :
                      \A y \in Present(children, order[k]) : x <= y
         IN  children[i].text

C23_TimestampPriority ==
    call.pc = "returned"
        => call.out = parse_datetime(FirstByPriority(call.children, Priority(call.kind)))

(***************************************************************************)
(* C24  Atom link selection, as stated: the chosen URL is the href of the   *)
(* first link whose rel (taken as 'alternate' when absent) equals           *)
(* 'alternate' and whose href is non-empty; if there is none, the href of    *)
(* the first link with a non-empty href; if there is none, the URL is empty  *)
(* and the entry is discarded.                                              *)
(***************************************************************************)
First(S) == CHOOSE x \in S : \A y \in S : x <= y

\* the selection of the claim over the links, given which links count as
\* alternate
Selected(links, alternate(_)) ==
    LET with_href == {i \in DOMAIN links : href_of(links[i]) # 0}
        alts == {i \in with_href : alternate(links[i])}
    IN  IF alts # {} THEN href_of(links[First(alts)])
        ELSE IF with_href # {} THEN href_of(links[First(with_href)])
        ELSE 0

\* the rel attribute is absent or is the text alternate
RelIsAlternate(child) ==
    child.rel = NoAttr \/ child.rel = Attr("alternate", FALSE, FALSE)

C24_AtomLinkAsStated ==
    call.pc = "returned" => call.out.link = Selected(call.links, RelIsAlternate)

(***************************************************************************)
(* C24  Atom link selection, amended: the rel is compared after trimming    *)
(* and lower-casing and is taken as 'alternate' when absent or empty; the   *)
(* chosen URL is the trimmed href of the first link with such a rel and a    *)
(* non-blank href, else of the first link with a non-blank href, else the    *)
(* URL is empty and the entry is discarded without effect.                  *)
(***************************************************************************)
\* the rel, trimmed and lower-cased, is alternate; absent and empty count
RelNormalizedIsAlternate(child) ==
    \/ child.rel = NoAttr
    \/ child.rel = Attr("", FALSE, FALSE)
    \/ child.rel.word = "alternate"

EmptyAcc == [seen_urls |-> {}, observed_urls |-> <<>>, new_posts |-> <<>>,
             all_new_posts |-> <<>>]

C24_AtomLinkSelection ==
    call.pc = "returned" =>
        /\ call.out.link = Selected(call.links, RelNormalizedIsAlternate)
        /\ call.out.url = call.out.link
        /\ (\A i \in DOMAIN call.links : href_of(call.links[i]) = 0)
               => /\ call.out.url = 0
                  /\ process_entry(EmptyAcc, Entry(call.out.url, None), 1, 0, 1) = EmptyAcc

\* a self link with an href, then a link whose rel is " ALTERNATE " with
\* another href, then a plain alternate link: the second one is chosen
C24_Witness ==
    /\ call.pc = "returned"
    /\ Len(call.links) = 3
    /\ call.links[1] = [rel |-> Attr("self", FALSE, FALSE), href |-> Attr(1, FALSE, FALSE)]
    /\ call.links[2] = [rel |-> Attr("alternate", TRUE, TRUE), href |-> Attr(2, TRUE, FALSE)]
    /\ call.links[3] = [rel |-> NoAttr, href |-> Attr(1, FALSE, FALSE)]
    /\ call.out.url = 2

(***************************************************************************)
(* C25  Canonicalization filters the query as a sequence: the output query  *)
(* holds exactly the input parameters whose lower-cased key neither starts  *)
(* with utm_ nor equals ref or source, in their order and as many times as   *)
(* they occur; scheme, host, path and fragment are unchanged.                *)
(***************************************************************************)
\* the octets a percent-encoded value stands for
Octets(val) ==
    CASE val = "1" -> <<49>>
      [] val \in {"+", "%20"} -> <<32>>
      [] val = "%ff" -> <<255>>
      [] val = "%fe" -> <<254>>
      [] val = "%EF%BF%BD" -> <<239, 191, 189>>

IsTracking(key) ==
    \/ key \in {"utm_source", "UTM_Medium"}
    \/ key \in {"Ref", "SOURCE"}

SameParameters(out, kept) ==
    /\ Len(out) = Len(kept)
    /\ \A i \in DOMAIN out :
           /\ out[i].key = kept[i].key
           /\ Octets(out[i].val) = Octets(kept[i].val)

C25_QueryFilter ==
    call.pc = "returned" =>
        /\ SameParameters(call.out.query,
                          SelectSeq(call.url.query, LAMBDA p : ~IsTracking(p.key)))
        /\ call.out.scheme = call.url.scheme
        /\ call.out.netloc = call.url.netloc
        /\ call.out.path = call.url.path
        /\ call.out.fragment = call.url.fragment

(***************************************************************************)
(* C26  An entry whose canonical URL is empty is discarded without effect:  *)
(* the iteration of a source leaves the seen-set, the observed_urls, the    *)
(* source's posts and the new_posts as it would without the entries whose    *)
(* URL is empty (unchanged, when the feed holds nothing else), and no        *)
(* seen_urls list the program writes contains an empty URL.                  *)
(***************************************************************************)
WithoutEmpty(es) == SelectSeq(es, LAMBDA e : e.url # 0)

EmptyUrlDiscarded ==
    \A p \in Procs :
        (/\ run[p].pc = "sources"
         /\ Len(run'[p].source_results) = Len(run[p].source_results) + 1
         /\ fetch_error(feeds[Len(run[p].source_results) + 1]) = "none")
            => LET source == Len(run[p].source_results) + 1
                   es == sort_entries(parse_feed(feeds[source]))
               IN  /\ WithoutEmpty(es) = <<>>
                       => /\ run'[p].seen_urls = run[p].seen_urls
                          /\ run'[p].observed_urls = run[p].observed_urls
                          /\ run'[p].all_new_posts = run[p].all_new_posts
                          /\ run'[p].source_results[source].new_posts = <<>>
                   /\ run'[p] = [source_body(run[p], Xml("rss", WithoutEmpty(es)))
                                    EXCEPT !.source_results[source].fetched_count = Len(es)]

NoEmptyUrlWritten ==
    \A p \in Procs :
        /\ HasUpdatedState(run'[p]) => 0 \notin Range(UpdatedSeen(run'[p]))
        /\ 0 \notin Range(run'[p].observed_urls)
        /\ 0 \notin PostUrls(run'[p].all_new_posts)
        /\ hist'.fresh => 0 \notin Range(WrittenSeen')

C26_EmptyUrlDiscarded == [][EmptyUrlDiscarded /\ NoEmptyUrlWritten]_vars

\* a run that loaded a seen_urls list holding an empty string and met an
\* entry without URL has written a list without it
C26_Witness ==
    \E p \in Procs :
        /\ run[p].pc = "done"
        /\ hist.fresh
        /\ 0 \in Range(PriorSeen(p))
        /\ feeds[1] = Xml("feed", <<Entry(0, None)>>)
        /\ run[p].result.sources[1].fetched_count = 1
        /\ run[p].result.sources[1].new_count = 0
        /\ run[p].observed_urls = Encountered(NumSources)
        /\ 0 \notin Range(WrittenSeen)

(***************************************************************************)
(* C27  Cap suppression is permanent: a recent entry with an unseen URL     *)
(* that is not emitted only because its source has reached                   *)
(* max_posts_per_source is added to the seen-set, is in no post of the run,  *)
(* and is in the seen_urls the run persists; and a run emits no URL that is  *)
(* in the seen_urls it loaded.                                               *)
(***************************************************************************)
\* entry k of source i is recent and unseen when reached, and over the cap
Capped(l, i, k) ==
    LET es == sort_entries(parse_feed(feeds[i]))
        seen == SeenBefore(l, i)
    IN  /\ Eligible(es, k, seen, l.window_start)
        /\ ~BelowCap(es, k, seen, l.window_start, l.args.max_posts_per_source)

C27_CapSuppressionPermanent ==
    \A p \in Procs :
        run[p].pc \in {"sources", "save", "write", "done"}
            => /\ \A i \in DOMAIN run[p].source_results :
                      fetch_error(feeds[i]) = "none" =>
                          LET es == sort_entries(parse_feed(feeds[i])) IN
                          \A k \in DOMAIN es :
                              Capped(run[p], i, k)
                                  => /\ es[k].url \in run[p].seen_urls
                                     /\ es[k].url \notin PostUrls(run[p].all_new_posts)
                                     /\ HasUpdatedState(run[p])
                                            => es[k].url \in Range(UpdatedSeen(run[p]))
               /\ \A u \in Range(PriorSeen(p)) : u \notin PostUrls(run[p].all_new_posts)

(***************************************************************************)
(* C28  Cross-run window linkage, as stated: a run that persists state      *)
(* writes last_run equal to its own generated_at, the clock read at run      *)
(* start, and only after all sources have been processed; the next run's     *)
(* window_start is the previous persisted run's generated_at minus           *)
(* grace_hours; and under a clock that never goes back and a fixed           *)
(* grace_hours the window_start of successive persisted runs never moves     *)
(* backwards.                                                                *)
(***************************************************************************)
\* the step is the start of a run of p that gets past loading the state
Starts(p) == ~Running(run[p]) /\ run'[p].pc = "sources"
\* the step is the write of the state document by p
Writes(p) == run[p].pc = "write" /\ run'[p].pc = "done"

LastRunIsGeneratedAt ==
    \A p \in Procs :
        /\ Starts(p) => run'[p].now = clock'.now /\ run'[p].source_results = <<>>
        /\ Writes(p)
              => /\ file'.doc.last_run = run[p].result.generated_at
                 /\ run[p].result.generated_at = isoformat(run[p].now)
                 /\ clock'.persisted = Some(run[p].now)
        /\ file' # file
              => \E q \in Procs : /\ run[q].pc \in {"save", "write"}
                                  /\ Len(run[q].source_results) = NumSources

\* a run that starts from the state file as a run wrote it
WindowLinked ==
    \A p \in Procs :
        (Starts(p) /\ hist.fresh)
            => run'[p].window_start = clock.persisted[1] - run'[p].args.grace_hours

PersistedWindowsMonotone ==
    \A p \in Procs :
        (Writes(p) /\ clock.window # None) => run[p].window_start >= clock.window[1]

C28_WindowLinkageAsStated ==
    [][LastRunIsGeneratedAt /\ WindowLinked /\ PersistedWindowsMonotone]_vars

(***************************************************************************)
(* C28  Cross-run window linkage, amended: a run that persists state writes *)
(* last_run equal to its own generated_at, and only after all sources have   *)
(* been processed; a run that starts from the state file as a run wrote it   *)
(* has window_start equal to that run's generated_at minus grace_hours; and  *)
(* under a clock that never goes back and a fixed grace_hours, window_start  *)
(* never moves backwards from one run that starts from such a file to the    *)
(* next one that does.                                                       *)
(***************************************************************************)
LinkedWindowsMonotone ==
    \A p \in Procs :
        (Starts(p) /\ hist.fresh /\ clock.linked # None)
            => run'[p].window_start >= clock.linked[1]

C28_WindowLinkage ==
    [][LastRunIsGeneratedAt /\ WindowLinked /\ LinkedWindowsMonotone]_vars

\* the third of three runs that persist: the second started at 1 from the
\* document of the first, written at 0, with window_start -1; the third
\* started from the document of the second with window_start 0
C28_Witness ==
    /\ run[1].pc = "write"
    /\ follow[1].quiet
    /\ clock.window = Some(0 - 1)
    /\ clock.persisted = Some(1)
    /\ clock.linked = Some(0)
    /\ run[1].window_start = 0

====
